---- MODULE Spec2Model ----
(***************************************************************************)
(* The ICP DAS PET-7018Z driver (src/src/pet7018z/pet7018z.py) and the     *)
(* MQTT example client that drives it (src/examples/mqtt/mqtt_client.py).  *)
(*                                                                         *)
(* The Modbus transport is pyModbusTCP.client.ModbusClient.  Its methods   *)
(* report a failure through their return value and raise nothing: open()   *)
(* returns False, the write_* methods return None, the read_* methods      *)
(* return None (so that the driver's "[0]" on the result raises            *)
(* TypeError), close() never fails.  A request on a client whose socket    *)
(* is not open is not sent (auto_open is off unless asked for).  The       *)
(* device is a register store: it keeps what an answered write request     *)
(* wrote.  A client that nothing refers to any more keeps its socket open  *)
(* until the garbage collector finalizes it; when that happens is not the  *)
(* driver's to decide.                                                     *)
(***************************************************************************)
EXTENDS Integers, Sequences, FiniteSets, TLC

(* ---------------------------- bounds ----------------------------------- *)

\* channels 0..MaxChannel of the instrument's ten are modelled
MaxChannel == 1

\* sessions the driver no longer refers to that may be open at once
MaxOrphans == 1

\* messages waiting in the worker's queue
MaxQueue == 2

(* ------------------------- register map -------------------------------- *)

ResetCoil == 226
AiRangeBase == 427
AiEnableBase == 595
CjcCoil == 627
FilterCoil == 629
AdcBits == 16
AdcOffset == 32768

\* the key of the -1 V .. 1 V range in ai_ranges
UnitRange == 4

Channels == 0 .. MaxChannel

\* a range's limits are min/per and max/per of its unit (per 1000: the table's
\* fractional volt ranges, held in millivolts)
ai_ranges ==
    (0 :> [min |-> -15, max |-> 15, per |-> 1000, unit |-> "V"]) @@
    (1 :> [min |-> -50, max |-> 50, per |-> 1000, unit |-> "V"]) @@
    (2 :> [min |-> -100, max |-> 100, per |-> 1000, unit |-> "V"]) @@
    (3 :> [min |-> -500, max |-> 500, per |-> 1000, unit |-> "V"]) @@
    (4 :> [min |-> -1000, max |-> 1000, per |-> 1000, unit |-> "V"]) @@
    (5 :> [min |-> -2500, max |-> 2500, per |-> 1000, unit |-> "V"]) @@
    (6 :> [min |-> -20, max |-> 20, per |-> 1, unit |-> "mA"]) @@
    (7 :> [min |-> 4, max |-> 20, per |-> 1, unit |-> "mA"]) @@
    (14 :> [min |-> -210, max |-> 760, per |-> 1, unit |-> "degC"]) @@
    (15 :> [min |-> -270, max |-> 1372, per |-> 1, unit |-> "degC"]) @@
    (16 :> [min |-> -270, max |-> 400, per |-> 1, unit |-> "degC"]) @@
    (17 :> [min |-> -270, max |-> 1000, per |-> 1, unit |-> "degC"]) @@
    (18 :> [min |-> 0, max |-> 1768, per |-> 1, unit |-> "degC"]) @@
    (19 :> [min |-> 0, max |-> 1768, per |-> 1, unit |-> "degC"]) @@
    (20 :> [min |-> 0, max |-> 1820, per |-> 1, unit |-> "degC"]) @@
    (21 :> [min |-> -270, max |-> 1300, per |-> 1, unit |-> "degC"]) @@
    (22 :> [min |-> 0, max |-> 2320, per |-> 1, unit |-> "degC"]) @@
    (23 :> [min |-> -200, max |-> 800, per |-> 1, unit |-> "degC"]) @@
    (24 :> [min |-> -200, max |-> 100, per |-> 1, unit |-> "degC"]) @@
    (25 :> [min |-> -200, max |-> 900, per |-> 1, unit |-> "degC"]) @@
    (26 :> [min |-> 0, max |-> 20, per |-> 1, unit |-> "mA"])

RangeCodes == DOMAIN ai_ranges

\* every code from 0 to one past the table's last key: the table's keys, the
\* reserved codes between them, and one code beyond
CodeInputs == 0 .. ((CHOOSE m \in RangeCodes : \A c \in RangeCodes : c <= m) + 1)

\* raw 16-bit register values an input register is read at
RawSamples == {0, 1, 32767, 32768, 65534, 65535}

\* power line frequencies a caller passes
PlfInputs == {50, 55, 60}

RangeAddrs == {AiRangeBase + c : c \in Channels}
CoilAddrs == {ResetCoil, CjcCoil, FilterCoil} \cup {AiEnableBase + c : c \in Channels}

(* ----------------------------- state ----------------------------------- *)

VARIABLES
    instr,      \* self.instr: "none" (attribute not set), or a client whose socket is "open" or "closed"
    orphans,    \* clients self.instr was overwritten over whose socket is still open
    linkUp,     \* whether the device answers on the network
    holding,    \* the device's holding registers 427+channel
    coils,      \* the device's coils
    codes,      \* the range codes the caller passes in this run
    lastOp,     \* the last driver call: its arguments, outcome and transport traffic
    lastSet     \* per channel, the code of the last set_ai_range the device stored (<<>>: none, or a reset since)

dvars == <<instr, orphans, linkUp, holding, coils, codes, lastOp, lastSet>>

\* setup() of the example client
VARIABLES
    config,     \* the global config: <<>> ({}), or <<c>> after read_config
    spc,        \* where setup() is
    err,        \* setup's err: <<>> (None), or <<the exception and the step that raised it>>
    connMsg,    \* setup's conn_msg
    trail,      \* the transport calls of this setup()'s connection stage, in order
    entry,      \* self.instr as it was when this setup() began
    ci,         \* the channel a configuration loop is at
    published   \* what this setup() published on daq/init: <<>>, or <<init_success>>

svars == <<config, spc, err, connMsg, trail, entry, ci, published>>

\* the two threads of the example client
VARIABLES
    q,          \* the queue on_message fills and worker empties
    start,      \* start[0]
    wpc,        \* where the worker thread is
    wmsg,       \* the message the worker is on: <<>>, or <<msg>>
    cpc         \* where the continuous thread is

cvars == <<q, start, wpc, wmsg, cpc>>

vars == <<dvars, svars, cvars>>

(* ------------------------- pure functions ------------------------------ *)

\* Signed16 with the two's complement step left out
Signed16Skipped(value) == value

\* lines 141-142: reinterpret an unsigned 16-bit value as signed
Signed16(value) ==
    IF (value \div 2 ^ (AdcBits - 1)) % 2 # 0 THEN value - 2 ^ AdcBits ELSE value

\* lines 141-145: the integer the linear formula is fed
AdcValue(value) == Signed16(value) + AdcOffset

\* line 154, eng = value * ai_range / (2 ** 16 - 1) + ai_range_min, as the
\* numerator of eng over (2^16 - 1) * per
EngNum(code, value) ==
    LET r == ai_ranges[code]
    IN  value * (r.max - r.min) + r.min * (2 ^ AdcBits - 1)

\* FilterCmd with 50 Hz and 60 Hz swapped
FilterCmdInverted(plf) == plf = 60

\* lines 290-293: the coil value for 50 Hz (true) and 60 Hz (false)
FilterCmd(plf) == plf = 50

\* line 205: the register set_ai_range writes
SetRangeAddr(channel) == AiRangeBase + channel

\* GetRangeAddr with the channel offset left out
GetRangeAddrFixed(channel) == AiRangeBase

\* line 241: the register get_ai_range reads
GetRangeAddr(channel) == AiRangeBase + channel

(* --------------------------- transport --------------------------------- *)

\* a request on self.instr is answered: the socket is open and the device reachable
TransportOk == instr = "open" /\ linkUp

Call(op, args, res, tfail, wrote, read, ret) ==
    [op |-> op, args |-> args, res |-> res, tfail |-> tfail,
     wrote |-> wrote, read |-> read, ret |-> ret]

NoCall == Call("none", <<>>, "ok", FALSE, <<>>, <<>>, <<>>)

\* self.instr raises AttributeError before connect() has ever run
NoInstr(op, args) ==
    /\ instr = "none"
    /\ lastOp' = Call(op, args, "AttributeError", FALSE, <<>>, <<>>, <<>>)
    /\ UNCHANGED <<instr, orphans, linkUp, holding, coils, codes, lastSet>>

\* self.instr.write_single_coil(addr, value), its return value dropped
WriteCoil(op, args, addr, value) ==
    /\ instr # "none"
    /\ coils' = IF TransportOk THEN [coils EXCEPT ![addr] = value] ELSE coils
    /\ lastOp' = Call(op, args, "ok", ~TransportOk, <<<<"coil", addr, value>>>>, <<>>, <<>>)

(* ------------------------ driver operations ---------------------------- *)

\* connect(ip_address, port, timeout, reset)
Connect(reset) ==
    /\ instr = "open" => orphans < MaxOrphans
    /\ instr' = IF linkUp THEN "open" ELSE "closed"
    /\ orphans' = IF instr = "open" THEN orphans + 1 ELSE orphans
    /\ coils' = IF reset /\ linkUp THEN [coils EXCEPT ![ResetCoil] = TRUE] ELSE coils
    /\ lastSet' = IF reset /\ linkUp THEN [c \in Channels |-> <<>>] ELSE lastSet
    /\ lastOp' = Call("connect", <<reset>>, "ok", ~linkUp,
                      IF reset THEN <<<<"coil", ResetCoil, TRUE>>>> ELSE <<>>, <<>>, <<>>)
    /\ UNCHANGED <<linkUp, holding, codes>>

\* disconnect()
Disconnect ==
    \/ NoInstr("disconnect", <<>>)
    \/ /\ instr # "none"
       /\ instr' = "closed"
       /\ lastOp' = Call("disconnect", <<>>, "ok", FALSE, <<>>, <<>>, <<>>)
       /\ UNCHANGED <<orphans, linkUp, holding, coils, codes, lastSet>>

\* get_id(): four register reads; the identity string is formatted from them
\* and read by nothing but the log
GetId ==
    \/ NoInstr("get_id", <<>>)
    \/ /\ instr # "none"
       /\ lastOp' = Call("get_id", <<>>, IF TransportOk THEN "ok" ELSE "TypeError",
                         ~TransportOk, <<>>, <<>>, <<>>)
       /\ UNCHANGED <<instr, orphans, linkUp, holding, coils, codes, lastSet>>

\* reset()
Reset ==
    \/ NoInstr("reset", <<>>)
    \/ /\ WriteCoil("reset", <<>>, ResetCoil, TRUE)
       /\ lastSet' = IF TransportOk THEN [c \in Channels |-> <<>>] ELSE lastSet
       /\ UNCHANGED <<instr, orphans, linkUp, holding, codes>>

\* set_ai_range(channel, ai_range)
SetAiRange(channel, ai_range) ==
    \/ NoInstr("set_ai_range", <<channel, ai_range>>)
    \/ /\ instr # "none"
       /\ holding' = IF TransportOk
                     THEN [holding EXCEPT ![SetRangeAddr(channel)] = ai_range]
                     ELSE holding
       /\ lastSet' = [lastSet EXCEPT ![channel] = IF TransportOk THEN <<ai_range>> ELSE <<>>]
       /\ lastOp' = Call("set_ai_range", <<channel, ai_range>>, "ok", ~TransportOk,
                         <<<<"register", SetRangeAddr(channel), ai_range>>>>, <<>>, <<>>)
       /\ UNCHANGED <<instr, orphans, linkUp, coils, codes>>

\* get_ai_range(channel)
GetAiRange(channel) ==
    \/ NoInstr("get_ai_range", <<channel>>)
    \/ /\ instr # "none"
       /\ lastOp' = IF TransportOk
                    THEN Call("get_ai_range", <<channel>>, "ok", FALSE, <<>>,
                              <<holding[GetRangeAddr(channel)]>>,
                              <<holding[GetRangeAddr(channel)]>>)
                    ELSE Call("get_ai_range", <<channel>>, "TypeError", TRUE, <<>>, <<>>, <<>>)
       /\ UNCHANGED <<instr, orphans, linkUp, holding, coils, codes, lastSet>>

\* measure(channel), the input register 0+channel holding `raw`
Measure(channel, raw) ==
    \/ NoInstr("measure", <<channel>>)
    \/ /\ instr # "none"
       /\ lastOp' =
            IF ~TransportOk
            THEN Call("measure", <<channel>>, "TypeError", TRUE, <<>>, <<>>, <<>>)
            ELSE LET code == holding[GetRangeAddr(channel)]
                 IN  IF code \notin RangeCodes
                     THEN Call("measure", <<channel>>, "KeyError", FALSE, <<>>,
                               <<raw, code>>, <<>>)
                     ELSE Call("measure", <<channel>>, "ok", FALSE, <<>>,
                               <<raw, code>>, <<EngNum(code, AdcValue(raw))>>)
       /\ UNCHANGED <<instr, orphans, linkUp, holding, coils, codes, lastSet>>

\* enable_cjc(enable)
EnableCjc(enable) ==
    \/ NoInstr("enable_cjc", <<enable>>)
    \/ /\ WriteCoil("enable_cjc", <<enable>>, CjcCoil, enable)
       /\ UNCHANGED <<instr, orphans, linkUp, holding, codes, lastSet>>

\* enable_ai(channel, enable)
EnableAi(channel, enable) ==
    \/ NoInstr("enable_ai", <<channel, enable>>)
    \/ /\ WriteCoil("enable_ai", <<channel, enable>>, AiEnableBase + channel, enable)
       /\ UNCHANGED <<instr, orphans, linkUp, holding, codes, lastSet>>

\* set_ai_noise_filter(plf)
SetAiNoiseFilter(plf) ==
    \/ /\ plf \notin {50, 60}
       /\ lastOp' = Call("set_ai_noise_filter", <<plf>>, "ValueError", FALSE, <<>>, <<>>, <<>>)
       /\ UNCHANGED <<instr, orphans, linkUp, holding, coils, codes, lastSet>>
    \/ /\ plf \in {50, 60}
       /\ \/ NoInstr("set_ai_noise_filter", <<plf>>)
          \/ /\ WriteCoil("set_ai_noise_filter", <<plf>>, FilterCoil, FilterCmd(plf))
             /\ UNCHANGED <<instr, orphans, linkUp, holding, codes, lastSet>>

(* --------------------------- environment ------------------------------- *)

\* the device or the network goes away, or comes back
LinkChange ==
    /\ linkUp' = ~linkUp
    /\ UNCHANGED <<instr, orphans, holding, coils, codes, lastOp, lastSet>>

\* the garbage collector finalizes a client nothing refers to: its socket closes
Finalize ==
    /\ orphans > 0
    /\ orphans' = orphans - 1
    /\ UNCHANGED <<instr, linkUp, holding, coils, codes, lastOp, lastSet>>

(* ----------------- setup() of the example client ----------------------- *)

\* the configurations a measurement/run message carries: a power line
\* frequency and a range code for each channel in use
Configs ==
    {[plf |-> p, channels |-> f] :
        p \in {50, 55},
        f \in UNION {[S -> {UnitRange}] : S \in {{}, {0}, Channels}}}

ConnectedMsg == "Connected to device"
FailedMsg == "DAQ connection failed!"

Event(step, ev, ok) == [step |-> step, ev |-> ev, ok |-> ok]

\* the exception the driver call of this step raised, as setup keeps it in err
Raised(step) == <<[step |-> step, exc |-> lastOp'.res]>>

\* before the first measurement/run message
SetupInit ==
    /\ config = <<>>
    /\ spc = "idle"
    /\ err = <<>>
    /\ connMsg = ""
    /\ trail = <<>>
    /\ entry = "none"
    /\ ci = 0
    /\ published = <<>>

\* worker, lines 108-112: read_config(payload), then setup()
SetupBegin(cfg) ==
    /\ spc = "idle"
    /\ config' = <<cfg>>
    /\ spc' = "probe"
    /\ err' = <<>>
    /\ connMsg' = ""
    /\ trail' = <<>>
    /\ entry' = instr
    /\ ci' = 0
    /\ published' = <<>>
    /\ UNCHANGED dvars

\* ProbeFailedNext with the fallback left out
ProbeFailedReport == "report"

\* line 236: after the probe of an existing client failed
ProbeFailedNext == "re_disconnect"

\* lines 217-234: daq.get_id() as the probe
SetupProbe ==
    /\ spc = "probe"
    /\ GetId
    /\ trail' = Append(trail, Event("probe", "id", lastOp'.res = "ok"))
    /\ CASE lastOp'.res = "ok" ->
              err' = <<>> /\ connMsg' = ConnectedMsg /\ spc' = "report"
         [] lastOp'.res = "AttributeError" ->
              spc' = "fresh_connect" /\ UNCHANGED <<err, connMsg>>
         [] OTHER ->
              err' = Raised("probe") /\ connMsg' = FailedMsg /\ spc' = ProbeFailedNext
    /\ UNCHANGED <<config, entry, ci, published>>

\* attempt_connect, lines 203-205: daq.connect(host, port, timeout, True)
AttemptConnect(step, then) ==
    /\ Connect(TRUE)
    /\ trail' = Append(trail, Event(step, "open", linkUp))
    /\ spc' = then
    /\ UNCHANGED <<config, err, connMsg, entry, ci, published>>

\* lines 225-230: the driver never connected, so try to connect
SetupFreshConnect == spc = "fresh_connect" /\ AttemptConnect("fresh", "fresh_id")

\* attempt_connect, lines 207-212, and the handler of lines 227-230
SetupFreshId ==
    /\ spc = "fresh_id"
    /\ GetId
    /\ trail' = Append(trail, Event("fresh", "id", lastOp'.res = "ok"))
    /\ IF lastOp'.res = "ok"
       THEN err' = <<>> /\ connMsg' = ConnectedMsg
       ELSE err' = Raised("fresh") /\ connMsg' = FailedMsg
    /\ spc' = "report"
    /\ UNCHANGED <<config, entry, ci, published>>

\* line 239: daq.disconnect()
SetupDisconnect ==
    /\ spc = "re_disconnect"
    /\ Disconnect
    /\ trail' = Append(trail, Event("reconnect", "close", lastOp'.res = "ok"))
    /\ spc' = "re_connect"
    /\ UNCHANGED <<config, err, connMsg, entry, ci, published>>

\* line 240: attempt_connect() after the disconnect
SetupReconnect == spc = "re_connect" /\ AttemptConnect("reconnect", "re_id")

\* ReconnectFailedNext with the overwriting connect left out
ReconnectFailedReport == "report"

\* lines 244-246: after disconnect-then-reconnect failed
ReconnectFailedNext == "over_connect"

\* attempt_connect, lines 207-212, and the handler of lines 241-243
SetupReconnectId ==
    /\ spc = "re_id"
    /\ GetId
    /\ trail' = Append(trail, Event("reconnect", "id", lastOp'.res = "ok"))
    /\ IF lastOp'.res = "ok"
       THEN err' = <<>> /\ connMsg' = ConnectedMsg /\ spc' = "report"
       ELSE err' = Raised("reconnect") /\ connMsg' = connMsg /\ spc' = ReconnectFailedNext
    /\ UNCHANGED <<config, entry, ci, published>>

\* line 247: attempt_connect() over the client that is there
SetupOverwrite == spc = "over_connect" /\ AttemptConnect("overwrite", "over_id")

\* attempt_connect, lines 207-212, and the handler of lines 248-251
SetupOverwriteId ==
    /\ spc = "over_id"
    /\ GetId
    /\ trail' = Append(trail, Event("overwrite", "id", lastOp'.res = "ok"))
    /\ IF lastOp'.res = "ok"
       THEN err' = <<>> /\ connMsg' = ConnectedMsg
       ELSE err' = Raised("overwrite") /\ connMsg' = FailedMsg
    /\ spc' = "report"
    /\ UNCHANGED <<config, entry, ci, published>>

\* lines 253-261: report the connection status
SetupReport ==
    /\ spc = "report"
    /\ IF err = <<>>
       THEN spc' = "cfg_disable" /\ published' = published
       ELSE spc' = "idle" /\ published' = <<FALSE>>
    /\ ci' = 0
    /\ UNCHANGED <<dvars, config, err, connMsg, trail, entry>>

\* lines 265-266: disable all analog inputs
SetupDisableAi ==
    /\ spc = "cfg_disable"
    /\ EnableAi(ci, FALSE)
    /\ IF ci = MaxChannel
       THEN spc' = "cfg_filter" /\ ci' = 0
       ELSE spc' = spc /\ ci' = ci + 1
    /\ UNCHANGED <<config, err, connMsg, trail, entry, published>>

\* line 269, and the handler of lines 283-289
SetupNoiseFilter ==
    /\ spc = "cfg_filter"
    /\ SetAiNoiseFilter(config[1].plf)
    /\ IF lastOp'.res = "ok"
       THEN spc' = "cfg_cjc" /\ published' = published
       ELSE spc' = "idle" /\ published' = <<FALSE>>
    /\ UNCHANGED <<config, err, connMsg, trail, entry, ci>>

\* the channels in use from channel `from` on
ChannelsFrom(from) == {c \in DOMAIN config[1].channels : c >= from}

\* the first of them
FirstFrom(from) == CHOOSE c \in ChannelsFrom(from) : \A d \in ChannelsFrom(from) : c <= d

\* lines 273 and 280-282: the next channel in use, or the end of setup
SetupLoop(from) ==
    IF ChannelsFrom(from) = {}
    THEN spc' = "idle" /\ published' = <<TRUE>> /\ ci' = 0
    ELSE spc' = "cfg_enable" /\ published' = published /\ ci' = FirstFrom(from)

\* line 270
SetupEnableCjc ==
    /\ spc = "cfg_cjc"
    /\ EnableCjc(TRUE)
    /\ SetupLoop(0)
    /\ UNCHANGED <<config, err, connMsg, trail, entry>>

\* line 274
SetupEnableAi ==
    /\ spc = "cfg_enable"
    /\ EnableAi(ci, TRUE)
    /\ spc' = "cfg_range"
    /\ UNCHANGED <<config, err, connMsg, trail, entry, ci, published>>

\* line 275
SetupSetRange ==
    /\ spc = "cfg_range"
    /\ SetAiRange(ci, config[1].channels[ci])
    /\ SetupLoop(ci + 1)
    /\ UNCHANGED <<config, err, connMsg, trail, entry>>

(* ------------------ the threads of the example client ------------------ *)

\* the configuration a measurement/run message carries here: 50 Hz, channel 0 in use
RunConfig == [plf |-> 50, channels |-> [c \in {0} |-> UnitRange]]

Msg(topic, payload) == [topic |-> topic, payload |-> payload]

\* the messages on the subscribed topics measurement/# and daq/#, unpickled
Messages ==
    {Msg("daq/start", ""), Msg("daq/stop", ""), Msg("daq/single", ""),
     Msg("measurement/run", "config")}
    \cup {Msg("measurement/log", m) : m \in {"Run complete!", "RUN ABORTED!", "other"}}
    \cup {Msg("measurement/status", m) : m \in {"Offline", "Ready", "Busy"}}

\* lines 59-66 and 297-301: start holds False, the queue is empty, both threads started
ClientInit ==
    /\ q = <<>>
    /\ start = FALSE
    /\ wpc = "get"
    /\ wmsg = <<>>
    /\ cpc = "check"

\* on_message, lines 292-294
OnMessage(msg) ==
    /\ Len(q) < MaxQueue
    /\ q' = Append(q, msg)
    /\ UNCHANGED <<start, wpc, wmsg, cpc, config>>

\* worker, lines 75-77: msg = q.get()
WorkerGet ==
    /\ wpc = "get"
    /\ q # <<>>
    /\ wmsg' = <<Head(q)>>
    /\ q' = Tail(q)
    /\ wpc' = "dispatch"
    /\ UNCHANGED <<start, cpc, config>>

\* worker, lines 80-85: daq/start and daq/stop
WorkerStartStop ==
    /\ wpc = "dispatch"
    /\ wmsg[1].topic \in {"daq/start", "daq/stop"}
    /\ start' = (wmsg[1].topic = "daq/start")
    /\ wpc' = "task_done"
    /\ UNCHANGED <<q, wmsg, cpc, config>>

\* lines 87-90 and 116: the message asks for continuous mode to stop, and it is on
StopsContinuous(msg) ==
    /\ \/ msg.topic = "measurement/log" /\ msg.payload \in {"Run complete!", "RUN ABORTED!"}
       \/ msg.topic = "measurement/status" /\ msg.payload \in {"Offline", "Ready"}
    /\ start

\* worker, lines 86-92 and 115-118: measurement/log and measurement/status
WorkerLogStatus ==
    /\ wpc = "dispatch"
    /\ wmsg[1].topic \in {"measurement/log", "measurement/status"}
    /\ IF StopsContinuous(wmsg[1])
       THEN start' = FALSE /\ wpc' = "sleep"
       ELSE start' = start /\ wpc' = "task_done"
    /\ UNCHANGED <<q, wmsg, cpc, config>>

\* worker, lines 96-100 and 122-126: the sleep of delay + 1 s, taken to outlast
\* a measurement the continuous thread is in, then logger.info(payload["msg"]),
\* which raises TypeError on the str payload of measurement/status
WorkerAfterSleep ==
    /\ wpc = "sleep"
    /\ cpc # "measure"
    /\ wpc' = IF wmsg[1].topic = "measurement/status" THEN "dead" ELSE "task_done"
    /\ UNCHANGED <<q, start, wmsg, cpc, config>>

\* worker, lines 101-107, and single, lines 146-148: config["daq"] raises
\* KeyError while config is {}; otherwise daq.measure(channel) is entered
WorkerSingle ==
    /\ wpc = "dispatch"
    /\ wmsg[1].topic = "daq/single"
    /\ wpc' = IF start THEN "task_done"
              ELSE IF config = <<>> THEN "dead" ELSE "measure"
    /\ UNCHANGED <<q, start, wmsg, cpc, config>>

\* single, lines 148-149: daq.measure returns, or raises on a read the
\* transport did not answer
WorkerMeasured(answered) ==
    /\ wpc = "measure"
    /\ wpc' = IF answered THEN "task_done" ELSE "dead"
    /\ UNCHANGED <<q, start, wmsg, cpc, config>>

\* worker, lines 108-114: read_config(payload) and the call of setup()
WorkerRun ==
    /\ wpc = "dispatch"
    /\ wmsg[1].topic = "measurement/run"
    /\ IF start
       THEN wpc' = "task_done" /\ config' = config
       ELSE wpc' = "setup" /\ config' = <<RunConfig>>
    /\ UNCHANGED <<q, start, wmsg, cpc>>

\* setup, lines 215-289, returns: it catches every exception of its driver calls
WorkerSetupDone ==
    /\ wpc = "setup"
    /\ wpc' = "task_done"
    /\ UNCHANGED <<q, start, wmsg, cpc, config>>

\* worker, line 128: q.task_done(), and round the loop
WorkerTaskDone ==
    /\ wpc = "task_done"
    /\ wpc' = "get"
    /\ wmsg' = <<>>
    /\ UNCHANGED <<q, start, cpc, config>>

\* continuous, lines 137-141, and single, lines 146-148
ContinuousCheck ==
    /\ cpc = "check"
    /\ cpc' = IF ~start THEN "sleep"
              ELSE IF config = <<>> THEN "dead" ELSE "measure"
    /\ UNCHANGED <<q, start, wpc, wmsg, config>>

\* single, lines 148-149, in the continuous thread
ContinuousMeasured(answered) ==
    /\ cpc = "measure"
    /\ cpc' = IF answered THEN "sleep" ELSE "dead"
    /\ UNCHANGED <<q, start, wpc, wmsg, config>>

\* continuous, lines 139 and 141: the sleep ends
ContinuousWake ==
    /\ cpc = "sleep"
    /\ cpc' = "check"
    /\ UNCHANGED <<q, start, wpc, wmsg, config>>

\* the threads inside an operation of the shared driver object daq
InDriver ==
    (IF wpc \in {"measure", "setup"} THEN {"worker"} ELSE {})
        \cup (IF cpc = "measure" THEN {"continuous"} ELSE {})

(* ------------------------- specifications ------------------------------ *)

\* after daq = pet7018z(): no self.instr; every channel of the device is on
\* the -1 V .. 1 V range; the caller uses that code and one more, from `any`
DriverInit(any) ==
    /\ instr = "none"
    /\ orphans = 0
    /\ linkUp \in BOOLEAN
    /\ \E b \in any : codes = {UnitRange, b}
    /\ holding = [r \in RangeAddrs |-> UnitRange]
    /\ coils = [c \in CoilAddrs |-> FALSE]
    /\ lastOp = NoCall
    /\ lastSet = [c \in Channels |-> <<>>]

\* the driver's callers at rest
DriverOnly == UNCHANGED <<svars, cvars>>

Init == DriverInit({9}) /\ SetupInit /\ ClientInit

Next ==
    \/ (\E reset \in BOOLEAN : Connect(reset)) /\ DriverOnly
    \/ Disconnect /\ DriverOnly
    \/ GetId /\ DriverOnly
    \/ Reset /\ DriverOnly
    \/ (\E channel \in Channels, ai_range \in codes : SetAiRange(channel, ai_range)) /\ DriverOnly
    \/ (\E channel \in Channels : GetAiRange(channel)) /\ DriverOnly
    \/ (\E channel \in Channels, raw \in RawSamples : Measure(channel, raw)) /\ DriverOnly
    \/ (\E enable \in BOOLEAN : EnableCjc(enable)) /\ DriverOnly
    \/ (\E channel \in Channels, enable \in BOOLEAN : EnableAi(channel, enable)) /\ DriverOnly
    \/ (\E plf \in PlfInputs : SetAiNoiseFilter(plf)) /\ DriverOnly
    \/ LinkChange /\ DriverOnly
    \/ Finalize /\ DriverOnly

Spec == Init /\ [][Next]_vars

\* the range registers alone, over every code a caller may use
RangeInit == DriverInit(CodeInputs) /\ SetupInit /\ ClientInit

RangeNext ==
    \/ (\E reset \in BOOLEAN : Connect(reset)) /\ DriverOnly
    \/ Disconnect /\ DriverOnly
    \/ (\E channel \in Channels, ai_range \in codes : SetAiRange(channel, ai_range)) /\ DriverOnly
    \/ (\E channel \in Channels : GetAiRange(channel)) /\ DriverOnly
    \/ LinkChange /\ DriverOnly
    \/ Finalize /\ DriverOnly

RangeSpec == RangeInit /\ [][RangeNext]_vars

\* the measurements alone
MeasureNext ==
    \/ (\E reset \in BOOLEAN : Connect(reset)) /\ DriverOnly
    \/ Disconnect /\ DriverOnly
    \/ (\E channel \in Channels, ai_range \in codes : SetAiRange(channel, ai_range)) /\ DriverOnly
    \/ (\E channel \in Channels, raw \in RawSamples : Measure(channel, raw)) /\ DriverOnly
    \/ LinkChange /\ DriverOnly
    \/ Finalize /\ DriverOnly

MeasureSpec == Init /\ [][MeasureNext]_vars

\* the coils alone
CoilNext ==
    \/ (\E reset \in BOOLEAN : Connect(reset)) /\ DriverOnly
    \/ Disconnect /\ DriverOnly
    \/ Reset /\ DriverOnly
    \/ (\E enable \in BOOLEAN : EnableCjc(enable)) /\ DriverOnly
    \/ (\E channel \in Channels, enable \in BOOLEAN : EnableAi(channel, enable)) /\ DriverOnly
    \/ (\E plf \in PlfInputs : SetAiNoiseFilter(plf)) /\ DriverOnly
    \/ LinkChange /\ DriverOnly
    \/ Finalize /\ DriverOnly

CoilSpec == Init /\ [][CoilNext]_vars

\* setup() of the example client, called again and again, over a link that comes and goes
\* (the driver's state is touched by setup alone)
SetupOnly == UNCHANGED <<svars, cvars>>

SetupNext ==
    \/ (\E cfg \in Configs : SetupBegin(cfg)) /\ UNCHANGED cvars
    \/ SetupProbe /\ UNCHANGED cvars
    \/ SetupFreshConnect /\ UNCHANGED cvars
    \/ SetupFreshId /\ UNCHANGED cvars
    \/ SetupDisconnect /\ UNCHANGED cvars
    \/ SetupReconnect /\ UNCHANGED cvars
    \/ SetupReconnectId /\ UNCHANGED cvars
    \/ SetupOverwrite /\ UNCHANGED cvars
    \/ SetupOverwriteId /\ UNCHANGED cvars
    \/ SetupReport /\ UNCHANGED cvars
    \/ SetupDisableAi /\ UNCHANGED cvars
    \/ SetupNoiseFilter /\ UNCHANGED cvars
    \/ SetupEnableCjc /\ UNCHANGED cvars
    \/ SetupEnableAi /\ UNCHANGED cvars
    \/ SetupSetRange /\ UNCHANGED cvars
    \/ LinkChange /\ SetupOnly
    \/ Finalize /\ SetupOnly

SetupSpec == Init /\ [][SetupNext]_vars

\* the worker and the continuous thread over the messages that arrive; of the
\* setup model only config is theirs
ClientOnly == UNCHANGED <<dvars, spc, err, connMsg, trail, entry, ci, published>>

ClientNext ==
    \/ (\E msg \in Messages : OnMessage(msg)) /\ ClientOnly
    \/ WorkerGet /\ ClientOnly
    \/ WorkerStartStop /\ ClientOnly
    \/ WorkerLogStatus /\ ClientOnly
    \/ WorkerAfterSleep /\ ClientOnly
    \/ WorkerSingle /\ ClientOnly
    \/ (\E answered \in BOOLEAN : WorkerMeasured(answered)) /\ ClientOnly
    \/ WorkerRun /\ ClientOnly
    \/ WorkerSetupDone /\ ClientOnly
    \/ WorkerTaskDone /\ ClientOnly
    \/ ContinuousCheck /\ ClientOnly
    \/ (\E answered \in BOOLEAN : ContinuousMeasured(answered)) /\ ClientOnly
    \/ ContinuousWake /\ ClientOnly

ClientSpec == Init /\ [][ClientNext]_vars

(* ------------------------------ claims --------------------------------- *)

\* the errors a range-code check in the driver would raise
RangeCodeErrors == {"InvalidRangeCode", "ValueError"}

\* C1: set_ai_range with a code that is no key of ai_ranges fails with an
\* invalid-range-code error and issues no register write.
C1_InvalidRangeRejected ==
    (lastOp.op = "set_ai_range" /\ instr # "none" /\ lastOp.args[2] \notin RangeCodes)
        => (lastOp.res \in RangeCodeErrors /\ lastOp.wrote = <<>>)

\* what a set_ai_noise_filter(plf) step does to the coils
NoiseFilterStep ==
    \A plf \in PlfInputs :
        SetAiNoiseFilter(plf) =>
            /\ plf = 50 /\ instr # "none" =>
                  /\ lastOp'.wrote = <<<<"coil", FilterCoil, TRUE>>>>
                  /\ coils' = IF TransportOk THEN [coils EXCEPT ![FilterCoil] = TRUE] ELSE coils
            /\ plf = 60 /\ instr # "none" =>
                  /\ lastOp'.wrote = <<<<"coil", FilterCoil, FALSE>>>>
                  /\ coils' = IF TransportOk THEN [coils EXCEPT ![FilterCoil] = FALSE] ELSE coils
            /\ plf \notin {50, 60} =>
                  /\ lastOp'.res = "ValueError"
                  /\ lastOp'.wrote = <<>>
                  /\ coils' = coils

\* C2: set_ai_noise_filter(50) writes coil 629 = true, set_ai_noise_filter(60)
\* writes coil 629 = false (the request is issued on the driver's client, and a
\* device that answers stores it, every other coil unchanged); any other
\* argument raises ValueError and leaves every coil as it was.
C2_NoiseFilter == [][NoiseFilterStep]_vars

\* C2's case: 50 Hz was set on a device that answered, and coil 629 is true
C2_Witness ==
    /\ lastOp.op = "set_ai_noise_filter"
    /\ lastOp.args = <<50>>
    /\ lastOp.res = "ok"
    /\ ~lastOp.tfail
    /\ coils[FilterCoil]

\* C3: get_ai_range(channel) returns the code of the last set_ai_range on that
\* channel that the device stored, whatever was set on other channels since.
C3_RoundTrip ==
    (lastOp.op = "get_ai_range" /\ lastOp.res = "ok") =>
        LET channel == lastOp.args[1]
        IN  (lastSet[channel] # <<>> /\ lastSet[channel][1] \in RangeCodes)
                => lastOp.ret = lastSet[channel]

\* C3's case: a code was set on a channel, another code on another channel,
\* and the first channel was read back
C3_Witness ==
    /\ lastOp.op = "get_ai_range"
    /\ lastOp.res = "ok"
    /\ \E other \in Channels \ {lastOp.args[1]} :
          /\ lastSet[other] # <<>>
          /\ lastSet[lastOp.args[1]] # <<>>
          /\ lastSet[other] # lastSet[lastOp.args[1]]
          /\ lastSet[lastOp.args[1]][1] \in RangeCodes
          /\ lastOp.ret = lastSet[lastOp.args[1]]

\* a measure() that returned a value on a channel on the -1 V .. 1 V range
MeasuredOnUnitRange ==
    /\ lastOp.op = "measure"
    /\ lastOp.res = "ok"
    /\ lastOp.read[2] = UnitRange

\* eng equals x/per of the unit
EngIs(x) == lastOp.ret = <<x * (2 ^ AdcBits - 1)>>

\* eng is within one ADC step of x/per of the unit
EngNear(x) ==
    LET r == ai_ranges[lastOp.read[2]]
        d == lastOp.ret[1] - x * (2 ^ AdcBits - 1)
    IN  d <= r.max - r.min /\ 0 - d <= r.max - r.min

\* C4 as stated: raw 0 gives the range minimum, raw 65535 the maximum, raw
\* 32768 about the midpoint; the formula is fed 0, 65535 and 32768.
C4_AsStated ==
    MeasuredOnUnitRange =>
        LET raw == lastOp.read[1]
            r == ai_ranges[lastOp.read[2]]
        IN  /\ raw = 0 => AdcValue(raw) = 0 /\ EngIs(r.min)
            /\ raw = 65535 => AdcValue(raw) = 65535 /\ EngIs(r.max)
            /\ raw = 32768 => AdcValue(raw) = 32768 /\ EngNear((r.min + r.max) \div 2)

\* C4 amended: the raw value is two's complement, so raw 32768 (0x8000) gives
\* the range minimum, raw 32767 (0x7fff) the maximum, and raw 0 about the
\* midpoint; the formula is fed 0, 65535 and 32768.
C4_TwosComplement ==
    MeasuredOnUnitRange =>
        LET raw == lastOp.read[1]
            r == ai_ranges[lastOp.read[2]]
        IN  /\ raw = 32768 => AdcValue(raw) = 0 /\ EngIs(r.min)
            /\ raw = 32767 => AdcValue(raw) = 65535 /\ EngIs(r.max)
            /\ raw = 0 => AdcValue(raw) = 32768 /\ EngNear((r.min + r.max) \div 2)

\* C4's case: raw 32768 was measured on a channel of range -1 V .. 1 V
C4_Witness ==
    /\ MeasuredOnUnitRange
    /\ lastOp.read[1] = 32768
    /\ EngIs(-1000)

\* setup() has returned, having published its result on daq/init
SetupEnded == spc = "idle" /\ published # <<>>

\* the transport opens of this setup(), in order
Opens == SelectSeq(trail, LAMBDA e : e.ev = "open")

\* the identity reads of this setup()'s connect attempts, in order
AttemptIds == SelectSeq(trail, LAMBDA e : e.ev = "id" /\ e.step # "probe")

\* the fallback steps this setup() took, in order
StepsTried == [i \in 1 .. Len(Opens) |-> Opens[i].step]

FirstOpenFailed == Len(Opens) >= 1 /\ ~Opens[1].ok

\* a second open succeeds: the one setup made did, and the device answered the
\* identity read on it; or setup made none and the device is reachable
SecondOpenWouldSucceed ==
    IF Len(Opens) >= 2 THEN Opens[2].ok /\ trail[Len(trail)].ok ELSE linkUp

\* setup connected after exactly one retry and went on to configure the device
SucceededAfterOneRetry ==
    /\ err = <<>>
    /\ Len(Opens) = 2
    /\ config[1].plf \in {50, 60} => published = <<TRUE>>

\* C5 as stated: whenever the first open fails and a second would succeed,
\* setup ends in success after exactly one retry, whether or not the driver
\* had connected before.
C5_AsStated ==
    (SetupEnded /\ FirstOpenFailed /\ SecondOpenWouldSucceed) => SucceededAfterOneRetry

\* C5 amended: that holds when self.instr existed as setup began (its probe
\* failed); a driver that never connected gets one connect attempt, and setup
\* reports init_success = False when its open fails.
C5_RetryOnExistingClient ==
    /\ (SetupEnded /\ entry # "none" /\ FirstOpenFailed /\ SecondOpenWouldSucceed)
          => SucceededAfterOneRetry
    /\ (SetupEnded /\ entry = "none" /\ FirstOpenFailed)
          => (Len(Opens) = 1 /\ err # <<>> /\ published = <<FALSE>>)

\* C5's case: an existing client, a failed first open, a second one that
\* succeeded, and init_success = True published
C5_Witness ==
    /\ SetupEnded
    /\ entry # "none"
    /\ Len(Opens) = 2
    /\ ~Opens[1].ok
    /\ Opens[2].ok
    /\ published = <<TRUE>>

\* setup() has reported a fatal connection failure: init_success = False, with err set
ConnectionFailed == SetupEnded /\ err # <<>>

\* C6 as stated: a fatal connection failure is reported only after fresh
\* connect, disconnect-then-reconnect and the overwriting connect were tried in
\* that order and failed, and carries the cause of the last.
C6_AsStated ==
    ConnectionFailed =>
        /\ published = <<FALSE>>
        /\ StepsTried = <<"fresh", "reconnect", "overwrite">>
        /\ \A i \in 1 .. Len(AttemptIds) : ~AttemptIds[i].ok
        /\ err[1].step = "overwrite"

\* C6 amended: a fatal connection failure is reported only after every step of
\* the branch taken has failed: the fresh connect alone when self.instr did
\* not exist, or, after a failed probe of the existing client,
\* disconnect-then-reconnect and then the overwriting connect; it carries the
\* cause of the last step tried.
C6_BranchExhausted ==
    ConnectionFailed =>
        /\ published = <<FALSE>>
        /\ IF entry = "none"
           THEN StepsTried = <<"fresh">>
           ELSE /\ StepsTried = <<"reconnect", "overwrite">>
                /\ trail[1] = Event("probe", "id", FALSE)
                /\ trail[2] = Event("reconnect", "close", TRUE)
        /\ Len(AttemptIds) = Len(StepsTried)
        /\ \A i \in 1 .. Len(AttemptIds) :
              AttemptIds[i].step = StepsTried[i] /\ ~AttemptIds[i].ok
        /\ err[1].step = StepsTried[Len(StepsTried)]

\* C6's case: the failure was reported after reconnect and overwrite both failed
C6_Witness ==
    /\ ConnectionFailed
    /\ StepsTried = <<"reconnect", "overwrite">>
    /\ err[1].step = "overwrite"

\* the transport sessions this driver instance opened that are open
OpenSessions == (IF instr = "open" THEN 1 ELSE 0) + orphans

\* C7: at most one session opened by the driver instance is open.
C7_AtMostOneSession == OpenSessions <= 1

\* C8: a driver operation whose transport open, read or write failed returns
\* an error to its caller.
C8_NoSwallowedFailure == lastOp.tfail => lastOp.res # "ok"

\* C9: no two threads are inside an operation of the shared driver at once.
C9_MutualExclusion == Cardinality(InDriver) <= 1

\* C10: the worker loop never stops: every message it takes is marked done and
\* it goes on to the next.
C10_WorkerNeverStops == wpc # "dead"

====
